---- MODULE Spec2Model ----
(***************************************************************************)
(* safefeat: point-in-time feature building (src/src/safefeat/core.py).    *)
(*                                                                         *)
(* A spine is a table of (entity_id, cutoff_time) rows, an events table a  *)
(* table of (entity_id, event_time, v) rows.  Tables are sequences of      *)
(* records, one record per DataFrame row.  Timestamps are integers in      *)
(* units of half a day, so that a difference of two timestamps can have a  *)
(* fractional number of days.  A nullable cell is a sequence of length at  *)
(* most one: <<>> is NaN/None, <<x>> is the value x.  Entity ids and        *)
(* timestamps are never null; the attribute column v may be.  spine and    *)
(* tables hold the rows of the caller's frames, frames the columns of each *)
(* of these frame objects and the dtype of each column: the caller passes  *)
(* its timestamps as strings (dtype object), which the library parses.     *)
(*                                                                         *)
(* The three public functions are the actions; each action is the whole    *)
(* call, from its argument checks to its return value or its exception.    *)
(* A caller that assembles its specification first runs the constructors   *)
(* of its blocks one by one (program is the list of constructor calls it   *)
(* will make, blocks the objects constructed so far) and then builds.      *)
(***************************************************************************)
EXTENDS Integers, Sequences, FiniteSets, TLC

VARIABLES spine, tables, frames, pc, call, result, program, blocks

vars == <<spine, tables, frames, pc, call, result, program, blocks>>

(***************************************************************************)
(* Bounds of the model.                                                    *)
(***************************************************************************)
MaxSpine == 2
MaxEvents == 2
\* Rows per table in the behaviours that assemble a specification first.
MaxRows == 1

\* .dt.days counts whole days; a day is two time units of the model.
DayUnits == 2

NULL == <<>>
Some(x) == <<x>>
IsNull(c) == c = NULL

\* Timestamps of event rows and of cutoffs, in time units.
Times == {0, 1, 2}
CutoffTimes == {0, 2}
Values == {1, 2}
Cells == {NULL} \cup {Some(x) : x \in Values}

\* u1 is the entity whose rows vary freely; u2 is a second entity with one
\* possible spine row and one possible event row, there to be kept apart from
\* u1 by the join and to be the entity without events.
SpineRows ==
  [entity_id : {"u1"}, cutoff_time : CutoffTimes]
    \cup {[entity_id |-> "u2", cutoff_time |-> 2]}
EventRows ==
  [entity_id : {"u1"}, event_time : Times, v : Cells]
    \cup {[entity_id |-> "u2", event_time |-> 1, v |-> Some(1)]}

SeqsUpTo(S, n) == UNION {[1 .. k -> S] : k \in 0 .. n}

EntityRank(e) == IF e = "u1" THEN 0 ELSE 1
CellRank(c) == IF IsNull(c) THEN 0 ELSE c[1]
EventRank(e) == (e.event_time * 2 + EntityRank(e.entity_id)) * 3 + CellRank(e.v)

\* Event tables are listed in chronological order (ties by entity and value):
\* the row order of an events table decides only the row order of the joined
\* frame, which no aggregation reads.
EventTables ==
  {ev \in SeqsUpTo(EventRows, MaxEvents) :
     \A i \in 1 .. Len(ev) - 1 : EventRank(ev[i]) <= EventRank(ev[i + 1])}

SpineTables == SeqsUpTo(SpineRows, MaxSpine)

\* The tables of the behaviours that assemble a specification: a spine, an
\* events table whose rows all have the value 1, and a second table, logs.
SmallSpineTables == SeqsUpTo(SpineRows, MaxRows)
SmallEventTables ==
  {ev \in SeqsUpTo({e \in EventRows : e.v = Some(1)}, MaxRows) :
     \A i \in 1 .. Len(ev) - 1 : EventRank(ev[i]) <= EventRank(ev[i + 1])}
LogTables ==
  SeqsUpTo({[entity_id |-> "u1", event_time |-> 2, v |-> Some(2)]}, MaxRows)

\* pd.to_timedelta on the duration strings the model uses, in time units.
to_timedelta(s) ==
  CASE s = "0s" -> 0
    [] s = "12h" -> 1
    [] s = "1D" -> 2
    [] s = "1d" -> 2
    [] s = "2D" -> 4

\* str.lower on the window strings.
lower(s) ==
  CASE s = "1D" -> "1d"
    [] s = "2D" -> "2d"
    [] OTHER -> s

Lags == {"0s", "12h"}
Windows == {"12h", "1D"}

(***************************************************************************)
(* Frame primitives: merge, boolean-mask selection, groupby, left merge.   *)
(***************************************************************************)
JoinPair(r, e) ==
  [entity_id |-> r.entity_id, cutoff_time |-> r.cutoff_time,
   event_time |-> e.event_time, v |-> e.v]

\* Variant of PairsOfRow: the entity is not compared (a cross join).
PairsOfRow_cross(r, ev) ==
  LET f[k \in 0 .. Len(ev)] ==
        IF k = 0 THEN <<>>
        ELSE Append(f[k - 1], JoinPair(r, ev[k]))
  IN f[Len(ev)]

\* The pairs of one spine row: one per event row of the same entity.
PairsOfRow(r, ev) ==
  LET f[k \in 0 .. Len(ev)] ==
        IF k = 0 THEN <<>>
        ELSE IF ev[k].entity_id = r.entity_id
             THEN Append(f[k - 1], JoinPair(r, ev[k]))
             ELSE f[k - 1]
  IN f[Len(ev)]

\* spine.merge(events, on=entity_col, how="inner")
InnerMerge(sp, ev) ==
  LET g[i \in 0 .. Len(sp)] ==
        IF i = 0 THEN <<>> ELSE g[i - 1] \o PairsOfRow(sp[i], ev)
  IN g[Len(sp)]

KeyOf(r) == <<r.entity_id, r.cutoff_time>>

Max(S) == CHOOSE x \in S : \A y \in S : y <= x

RECURSIVE SumSet(_, _)
\* Sum of f over the index set S.
SumSet(f, S) ==
  IF S = {} THEN 0
  ELSE LET i == CHOOSE j \in S : TRUE IN f[i] + SumSet(f, S \ {i})

RECURSIVE Gcd(_, _)
Gcd(a, b) == IF b = 0 THEN a ELSE Gcd(b, a % b)

\* A float that is the quotient of two integers, in lowest terms.
Rat(n, d) == LET g == Gcd(n, d) IN [num |-> n \div g, den |-> d \div g]

\* The (entity, cutoff) keys of a frame, each once, in order of appearance.
KeySeq(df) ==
  LET f[k \in 0 .. Len(df)] ==
        IF k = 0 THEN <<>>
        ELSE LET seen == f[k - 1]
             IN IF \E j \in 1 .. Len(seen) : seen[j] = KeyOf(df[k])
                THEN seen
                ELSE Append(seen, KeyOf(df[k]))
  IN f[Len(df)]

GroupRows(df, key) == SelectSeq(df, LAMBDA p : KeyOf(p) = key)

\* row[col]: the cell of an event row in attribute column col.
CellOf(row, col) == CASE col = "v" -> row.v

\* df[dim] as the sequence of its cells.
Column(df, dim) == CASE dim = "v" -> [i \in 1 .. Len(df) |-> df[i].v]

NonNull(col) == {i \in 1 .. Len(col) : ~IsNull(col[i])}

\* GroupBy.size()
agg_size(g) == Some(Len(g))

\* GroupBy[dim].sum(): nulls are skipped, an all-null group sums to 0.
agg_sum(col) ==
  Some(SumSet([i \in 1 .. Len(col) |-> IF IsNull(col[i]) THEN 0 ELSE col[i][1]],
              NonNull(col)))

\* GroupBy[dim].mean(): nulls are skipped, an all-null group gives NaN.
agg_mean(col) ==
  IF NonNull(col) = {} THEN NULL
  ELSE Some(Rat(agg_sum(col)[1], Cardinality(NonNull(col))))

\* GroupBy[dim].nunique(): distinct non-null values.
agg_nunique(col) == Some(Cardinality({col[i] : i \in NonNull(col)}))

\* GroupBy.agg({event_time_col: "max"})
agg_max_time(g) == Some(Max({g[i].event_time : i \in 1 .. Len(g)}))

Reduce(g, dim, how) ==
  CASE how = "size" -> agg_size(g)
    [] how = "sum" -> agg_sum(Column(g, dim))
    [] how = "mean" -> agg_mean(Column(g, dim))
    [] how = "nunique" -> agg_nunique(Column(g, dim))
    [] how = "max" -> agg_max_time(g)

\* df.groupby([entity_col, cutoff_col]) reduced by `how` (over column dim,
\* for the reductions of a column), then reset_index: one row per key, the
\* reduced value in column val.
GroupAgg(df, dim, how) ==
  LET keys == KeySeq(df)
  IN [k \in 1 .. Len(keys) |->
        [entity_id |-> keys[k][1], cutoff_time |-> keys[k][2],
         val |-> Reduce(GroupRows(df, keys[k]), dim, how)]]

\* The rows a left row gets from the right frame: one per right row of the
\* same key, or one row with a null val when there is none.
LeftRows(r, agg) ==
  LET m == SelectSeq(agg, LAMBDA a : KeyOf(a) = KeyOf(r))
  IN IF Len(m) = 0
     THEN <<[entity_id |-> r.entity_id, cutoff_time |-> r.cutoff_time, val |-> NULL]>>
     ELSE [j \in 1 .. Len(m) |->
             [entity_id |-> r.entity_id, cutoff_time |-> r.cutoff_time, val |-> m[j].val]]

RECURSIVE SortByCutoff(_)
\* The rows of sp by ascending cutoff.
SortByCutoff(sp) ==
  IF Len(sp) = 0 THEN <<>>
  ELSE LET m == CHOOSE i \in 1 .. Len(sp) :
                  /\ \A j \in 1 .. Len(sp) : sp[i].cutoff_time <= sp[j].cutoff_time
                  /\ \A j \in 1 .. i - 1 : sp[j].cutoff_time > sp[i].cutoff_time
       IN <<sp[m]>> \o SortByCutoff(SubSeq(sp, 1, m - 1) \o SubSeq(sp, m + 1, Len(sp)))

\* Variant of LeftMerge: the merged frame comes out sorted by cutoff.
LeftMerge_sorted(sp, agg) ==
  LET srt == SortByCutoff(sp)
      g[i \in 0 .. Len(srt)] ==
        IF i = 0 THEN <<>> ELSE g[i - 1] \o LeftRows(srt[i], agg)
  IN g[Len(srt)]

\* left.merge(right, on=[entity_col, cutoff_col], how="left")
LeftMerge(sp, agg) ==
  LET g[i \in 0 .. Len(sp)] ==
        IF i = 0 THEN <<>> ELSE g[i - 1] \o LeftRows(sp[i], agg)
  IN g[Len(sp)]

\* Series.fillna(zero).values of column val
FillNa(m, zero) == [i \in 1 .. Len(m) |-> IF IsNull(m[i].val) THEN zero ELSE m[i].val[1]]

\* Variant of ColValues: the nulls are filled with 0, like the aggregates'.
ColValues_filled(m) ==
  [i \in 1 .. Len(m) |-> IF IsNull(m[i].val) THEN Some(0) ELSE m[i].val]

\* Series.values of column val, nulls kept
ColValues(m) == [i \in 1 .. Len(m) |-> m[i].val]

(***************************************************************************)
(* filter_events_point_in_time, _events_in_window, count_events_in_window, *)
(* _compute_recency                                                        *)
(***************************************************************************)
\* Variant of future_mask: an event at the boundary counts as future.
future_mask_ge(p, allowed_lag) ==
  p.event_time >= p.cutoff_time + to_timedelta(allowed_lag)

\* future_mask = merged_df[event_time_col] > (merged_df[cutoff_col] + allowed_lag_td)
future_mask(p, allowed_lag) ==
  p.event_time > p.cutoff_time + to_timedelta(allowed_lag)

\* Variant of future_delta: the excess is measured from the cutoff itself.
future_delta_from_cutoff(p, allowed_lag) == p.event_time - p.cutoff_time

\* deltas = dropped_future[event_time_col] - (dropped_future[cutoff_col] + allowed_lag_td)
future_delta(p, allowed_lag) ==
  p.event_time - (p.cutoff_time + to_timedelta(allowed_lag))

\* Variant of kept_rows: the mask is applied without its negation.
kept_rows_unnegated(merged_df, allowed_lag) ==
  SelectSeq(merged_df, LAMBDA p : future_mask(p, allowed_lag))

\* merged_df[~future_mask]
kept_rows(merged_df, allowed_lag) ==
  SelectSeq(merged_df, LAMBDA p : ~future_mask(p, allowed_lag))

\* Variant of dropped_rows: the dropped frame is selected with >=, so a pair
\* at the boundary is both kept and dropped.
dropped_rows_ge(merged_df, allowed_lag) ==
  SelectSeq(merged_df, LAMBDA p : future_mask_ge(p, allowed_lag))

\* merged_df[future_mask]
dropped_rows(merged_df, allowed_lag) ==
  SelectSeq(merged_df, LAMBDA p : future_mask(p, allowed_lag))

filter_events_point_in_time(sp, ev, allowed_lag, collect_audit) ==
  LET merged_df == InnerMerge(sp, ev)
      total_joined_pairs == Len(merged_df)
      dropped_future == dropped_rows(merged_df, allowed_lag)
      dropped_future_pairs == Len(dropped_future)
      kept == kept_rows(merged_df, allowed_lag)
      kept_pairs == Len(kept)
      max_future_delta ==
        IF dropped_future_pairs > 0
        THEN Some(Max({future_delta(dropped_future[i], allowed_lag) :
                         i \in 1 .. Len(dropped_future)}))
        ELSE NULL
  IN [df |-> kept,
      audit |-> IF collect_audit
                THEN Some([total_joined_pairs |-> total_joined_pairs,
                           kept_pairs |-> kept_pairs,
                           dropped_future_pairs |-> dropped_future_pairs,
                           max_future_delta |-> max_future_delta])
                ELSE NULL]

\* Variant of window_mask: the lower bound is inclusive.
window_mask_closed(p, time_window) ==
  /\ p.event_time >= p.cutoff_time - to_timedelta(time_window)
  /\ p.event_time <= p.cutoff_time

\* Variant of window_mask: no upper bound at the cutoff.
window_mask_unbounded(p, time_window) ==
  p.event_time > p.cutoff_time - to_timedelta(time_window)

\* mask = (event_time > cutoff - window) & (event_time <= cutoff)
window_mask(p, time_window) ==
  /\ p.event_time > p.cutoff_time - to_timedelta(time_window)
  /\ p.event_time <= p.cutoff_time

\* Variant of _events_in_window: kept_pairs of the audit counts the pairs in
\* the window.
_events_in_window_kept(sp, ev, time_window, allowed_lag, collect_audit) ==
  LET res == filter_events_point_in_time(sp, ev, allowed_lag, collect_audit)
      in_window == SelectSeq(res.df, LAMBDA p : window_mask(p, time_window))
  IN [df |-> in_window,
      audit |-> IF IsNull(res.audit) THEN NULL
                ELSE Some([res.audit[1] EXCEPT !.kept_pairs = Len(in_window)])]

_events_in_window(sp, ev, time_window, allowed_lag, collect_audit) ==
  LET res == filter_events_point_in_time(sp, ev, allowed_lag, collect_audit)
  IN [df |-> SelectSeq(res.df, LAMBDA p : window_mask(p, time_window)),
      audit |-> res.audit]

\* The returned frame: the spine's columns and the event_count column.
count_events_in_window(sp, ev, allowed_lag, time_window) ==
  LET in_window == _events_in_window(sp, ev, time_window, allowed_lag, FALSE).df
      counts == GroupAgg(in_window, "*", "size")
      out == LeftMerge(sp, counts)
  IN [i \in 1 .. Len(out) |->
        [entity_id |-> out[i].entity_id, cutoff_time |-> out[i].cutoff_time,
         event_count |-> IF IsNull(out[i].val) THEN 0 ELSE out[i].val[1]]]

\* Variant of days: the whole days of a difference, rounded toward zero.
days_trunc(td) == IF td >= 0 THEN td \div DayUnits ELSE -((-td) \div DayUnits)

\* Timedelta.days: the whole days of a difference, rounded down.
days(td) == td \div DayUnits

\* One row per (entity, cutoff) with a causally filtered event: the days from
\* its latest such event to the cutoff.
_compute_recency(sp, ev, allowed_lag) ==
  LET filtered == filter_events_point_in_time(sp, ev, allowed_lag, FALSE).df
      last_events == GroupAgg(filtered, "event_time", "max")
  IN [k \in 1 .. Len(last_events) |->
        [entity_id |-> last_events[k].entity_id,
         cutoff_time |-> last_events[k].cutoff_time,
         val |-> Some(days(last_events[k].cutoff_time - last_events[k].val[1]))]]

(***************************************************************************)
(* Specification blocks (src/src/safefeat/spec.py)                         *)
(***************************************************************************)
WindowAgg(table, windows, metrics) ==
  [kind |-> "WindowAgg", table |-> table, windows |-> windows, metrics |-> metrics]

RecencyBlock(table, filter_col, filter_value) ==
  [kind |-> "RecencyBlock", table |-> table,
   filter_col |-> filter_col, filter_value |-> filter_value]

\* One entry of the metrics dict: a dimension and its list of aggregations.
Metric(dim, aggs) == [dim |-> dim, aggs |-> aggs]

Has(aggs, a) == \E i \in 1 .. Len(aggs) : aggs[i] = a

\* The Python values a filter is given: an int, or a str.
PyInt(n) == [type |-> "int", val |-> n]
PyStr(s) == [type |-> "str", val |-> s]

\* str() of a filter value, as the f-string of the feature name renders it.
StrOf(x) ==
  IF x.type = "str" THEN x.val
  ELSE CASE x.val = 1 -> "1" [] x.val = 2 -> "2"

\* series == value, on a float column: a missing cell equals nothing, and a
\* number equals no str.
series_eq(cell, x) == ~IsNull(cell) /\ x.type = "int" /\ cell[1] = x.val

TableNames == {"events"}
EventColumns == {"entity_id", "event_time", "v"}
SpineColumns == {"entity_id", "cutoff_time"}

\* Feature names, as the f-strings build them.
\* f"{block.table}__n_events__{w.lower()}"
CountName(table, w) == table \o "__n_events__" \o lower(w)
\* f"{block.table}__{dim}__{agg}__{w.lower()}"
AggName(table, dim, agg, w) == table \o "__" \o dim \o "__" \o agg \o "__" \o lower(w)
\* f"{block.table}__recency" + f"__{block.filter_col}_{block.filter_value}"
RecencyName(block) ==
  IF IsNull(block.filter_col)
  THEN block.table \o "__recency"
  ELSE block.table \o "__recency" \o "__" \o block.filter_col[1] \o "_"
         \o StrOf(block.filter_value[1])

(***************************************************************************)
(* The frame objects: which object a name of the code refers to, and what  *)
(* an assignment into a frame does to the caller's objects.  A heap maps   *)
(* an object to its columns and their dtypes; the caller's objects are     *)
(* "spine" and one per table, the others are the locals of the library.    *)
(***************************************************************************)
SpineFrame == [c \in SpineColumns |-> "object"]
EventsFrame == [c \in EventColumns |-> IF c = "v" THEN "float64" ELSE "object"]

\* The caller's frame objects before a call.
CallerFrames(tbls) ==
  [o \in {"spine"} \cup DOMAIN tbls |-> IF o = "spine" THEN SpineFrame ELSE EventsFrame]

\* Variant of df_copy: the name is bound to the object itself, not to a copy.
df_copy_alias(h, src, fresh) == [h |-> h, ref |-> src]

\* fresh = src.copy(): a new object with the columns of src.
df_copy(h, src, fresh) ==
  [h |-> [o \in DOMAIN h \cup {fresh} |-> IF o = fresh THEN h[src] ELSE h[o]],
   ref |-> fresh]

\* fresh = src[cols] or src[mask]: a selection is a new object.
df_select(h, src, fresh, cols) ==
  [h |-> [o \in DOMAIN h \cup {fresh} |->
            IF o = fresh THEN [c \in cols |-> h[src][c]] ELSE h[o]],
   ref |-> fresh]

\* df[col] = values of dtype: the object df refers to gets or replaces col.
df_setitem(h, ref, col, dtype) ==
  [h EXCEPT ![ref] = [c \in DOMAIN h[ref] \cup {col} |->
                        IF c = col THEN dtype ELSE h[ref][c]]]

\* df[col] = pd.to_datetime(df[col], errors="raise")
df_to_datetime(h, ref, col) == df_setitem(h, ref, col, "datetime64[ns]")

\* filter_events_point_in_time: both arguments are copied, their timestamp
\* columns parsed in the copies; merge and the masks make new objects.
filter_frames(h, spine_ref, events_ref) ==
  LET s == df_copy(h, spine_ref, "filter.spine")
      e == df_copy(s.h, events_ref, "filter.events")
  IN df_to_datetime(df_to_datetime(e.h, s.ref, "cutoff_time"), e.ref, "event_time")

\* count_events_in_window: spine2 is a copy, events goes to the filter as is.
count_frames(h, spine_ref, events_ref) ==
  LET s == df_copy(h, spine_ref, "spine2")
  IN filter_frames(df_to_datetime(s.h, s.ref, "cutoff_time"), s.ref, events_ref)

\* _compute_recency: spine2 is a copy, events goes to the filter as is.
recency_frames(h, spine_ref, events_ref) ==
  LET s == df_copy(h, spine_ref, "spine2")
  IN filter_frames(df_to_datetime(s.h, s.ref, "cutoff_time"), s.ref, events_ref)

\* What the caller sees of a heap: its own objects.
CallerView(h, tbls) == [o \in {"spine"} \cup DOMAIN tbls |-> h[o]]

(***************************************************************************)
(* build_features                                                          *)
(***************************************************************************)
Raise(st) == [st EXCEPT !.status = "raised"]

\* out[feature_name] = values: a positional assignment, which fails when the
\* number of values is not the number of rows of out.
AssignColumn(st, n, name, vals) ==
  IF Len(vals) # n
  THEN Raise(st)
  ELSE [st EXCEPT !.cols = [c \in DOMAIN st.cols \cup {name} |->
                               IF c = name THEN vals ELSE st.cols[c]],
                  !.heap = df_setitem(st.heap, st.out, name, "feature")]

\* groupby, reduce, left-merge onto the spine, fillna, assign.
AggColumn(st, sp, name, dim, how, zero) ==
  IF st.status # "ok" THEN st
  ELSE AssignColumn(st, Len(sp), name,
                    FillNa(LeftMerge(sp, GroupAgg(st.in_window, dim, how)), zero))

\* The aggregations of a named column, in the order of their `if` blocks, and
\* what fillna puts where a row has no group.
NamedAggs == <<"sum", "mean", "nunique">>
FillValue(how) == IF how = "mean" THEN Rat(0, 1) ELSE 0

\* The body of `for dim, aggs in block.metrics.items()`.
ProcessMetric(st, sp, table, w, m) ==
  IF st.status # "ok" THEN st
  ELSE IF m.dim # "*" /\ m.dim \notin (SpineColumns \cup EventColumns)
  THEN Raise(st)
  ELSE IF m.dim = "*"
  THEN IF Has(m.aggs, "count")
       THEN AggColumn(st, sp, CountName(table, w), "*", "size", 0)
       ELSE st
  ELSE LET g[j \in 0 .. Len(NamedAggs)] ==
             IF j = 0 THEN st
             ELSE IF Has(m.aggs, NamedAggs[j])
             THEN AggColumn(g[j - 1], sp,
                            AggName(table, m.dim, NamedAggs[j], w),
                            m.dim, NamedAggs[j], FillValue(NamedAggs[j]))
             ELSE g[j - 1]
       IN g[Len(NamedAggs)]

\* The head of the body of `for w in block.windows`: the events in the
\* window, and the audit of the first window when a report is asked for.
EnterWindow(st, res, table, return_report) ==
  [st EXCEPT
     !.in_window = res.df,
     !.heap = filter_frames(st.heap, st.spine_subset, table),
     !.audit_data_for_table =
        IF return_report /\ IsNull(st.audit_data_for_table)
        THEN res.audit
        ELSE st.audit_data_for_table]

\* The body of `for w in block.windows`.
ProcessWindow(st, sp, ev, block, w, allowed_lag, return_report) ==
  IF st.status # "ok" THEN st
  ELSE
    LET f[k \in 0 .. Len(block.metrics)] ==
          IF k = 0
          THEN EnterWindow(st, _events_in_window(sp, ev, w, allowed_lag, return_report),
                           block.table, return_report)
          ELSE ProcessMetric(f[k - 1], sp, block.table, w, block.metrics[k])
    IN f[Len(block.metrics)]

\* Variant of add_table: the report is replaced by the one entry.
add_table_single(report, table, audit) == [t \in {table} |-> audit]

\* report.add_table(TableAudit(...)): add or replace the entry of the table.
add_table(report, table, audit) ==
  [t \in DOMAIN report \cup {table} |-> IF t = table THEN audit ELSE report[t]]

\* After the loop over the windows: the audit of the table goes into the
\* report when one was collected.
AddTableAudit(st, table, return_report) ==
  IF st.status = "ok" /\ return_report /\ ~IsNull(st.audit_data_for_table)
  THEN [st EXCEPT !.report = add_table(st.report, table, st.audit_data_for_table[1])]
  ELSE st

ProcessWindowAgg(st, sp, tbls, block, allowed_lag, return_report) ==
  IF block.table \notin DOMAIN tbls THEN Raise(st)
  ELSE
    LET f[k \in 0 .. Len(block.windows)] ==
          IF k = 0 THEN [st EXCEPT !.audit_data_for_table = NULL]
          ELSE ProcessWindow(f[k - 1], sp, tbls[block.table], block,
                             block.windows[k], allowed_lag, return_report)
    IN AddTableAudit(f[Len(block.windows)], block.table, return_report)

\* filtered_events[filtered_events[block.filter_col] == block.filter_value]
filter_rows(ev, block) ==
  IF IsNull(block.filter_col) THEN ev
  ELSE SelectSeq(ev, LAMBDA e : series_eq(CellOf(e, block.filter_col[1]),
                                          block.filter_value[1]))

ProcessRecency(st, sp, tbls, block, allowed_lag) ==
  IF block.table \notin DOMAIN tbls THEN Raise(st)
  ELSE IF ~IsNull(block.filter_col) /\ block.filter_col[1] \notin EventColumns
  THEN Raise(st)
  ELSE
    LET recency_features ==
          _compute_recency(sp, filter_rows(tbls[block.table], block), allowed_lag)
        fe == df_copy(st.heap, block.table, "filtered_events")
        st1 == [st EXCEPT !.heap = recency_frames(fe.h, st.spine_subset, fe.ref)]
    IN AssignColumn(st1, Len(sp), RecencyName(block),
                    ColValues(LeftMerge(sp, recency_features)))

ProcessBlock(st, sp, tbls, block, allowed_lag, return_report) ==
  IF st.status # "ok" THEN st
  ELSE CASE block.kind = "WindowAgg" ->
              ProcessWindowAgg(st, sp, tbls, block, allowed_lag, return_report)
         [] block.kind = "RecencyBlock" ->
              ProcessRecency(st, sp, tbls, block, allowed_lag)
         [] OTHER -> Raise(st)

\* build_features up to its return statement, on the heap h: out is a copy
\* of the spine, spine_subset a selection of out; then the loop over the
\* blocks.  The state holds the feature columns assigned to out, the report,
\* the locals audit_data_for_table and in_window, the heap, and whether an
\* exception was raised.
build_state(h, sp, tbls, spec, allowed_lag, return_report) ==
  LET o == df_copy(h, "spine", "out")
      sub == df_select(df_to_datetime(o.h, o.ref, "cutoff_time"), o.ref,
                       "spine_subset", SpineColumns)
      st0 == [status |-> "ok", cols |-> <<>>, report |-> <<>>,
              audit_data_for_table |-> NULL, in_window |-> <<>>,
              heap |-> sub.h, out |-> o.ref, spine_subset |-> sub.ref]
      f[k \in 0 .. Len(spec)] ==
        IF k = 0 THEN st0
        ELSE ProcessBlock(f[k - 1], sp, tbls, spec[k], allowed_lag, return_report)
  IN f[Len(spec)]

\* What build_features returns or raises, given the state it ended in.
build_return(st, sp, return_report) ==
  IF st.status = "ok"
  THEN [status |-> "ok", rows |-> sp, cols |-> st.cols,
        report |-> IF return_report THEN Some(st.report) ELSE NULL]
  ELSE [status |-> "raised"]

build_features(sp, tbls, spec, allowed_lag, return_report) ==
  build_return(build_state(CallerFrames(tbls), sp, tbls, spec, allowed_lag,
                           return_report), sp, return_report)

(***************************************************************************)
(* The calls                                                               *)
(***************************************************************************)
AllMetrics ==
  <<Metric("*", <<"count">>), Metric("v", <<"sum", "mean", "nunique">>)>>

\* The feature specifications the build call is given.
Specs ==
  {<<WindowAgg("events", <<"12h", "1D">>, AllMetrics),
     RecencyBlock("events", NULL, NULL),
     RecencyBlock("events", Some("v"), Some(PyInt(1)))>>,
   <<RecencyBlock("events", NULL, NULL),
     WindowAgg("events", <<"1D">>, <<Metric("*", <<"count">>)>>)>>}

\* The column-name arguments of a call: the defaults, which name columns the
\* frames have, and one name at a time that no frame has.
DefaultColumns ==
  [entity_col |-> "entity_id", cutoff_col |-> "cutoff_time", event_time_col |-> "event_time"]

ColumnArgs ==
  {DefaultColumns,
   [DefaultColumns EXCEPT !.entity_col = "user_id"],
   [DefaultColumns EXCEPT !.cutoff_col = "cutoff"],
   [DefaultColumns EXCEPT !.event_time_col = "ts"]}

\* if entity_col not in spine.columns or cutoff_col not in spine.columns
spine_columns_missing(h, spine_ref, cols) ==
  cols.entity_col \notin DOMAIN h[spine_ref] \/ cols.cutoff_col \notin DOMAIN h[spine_ref]

\* if entity_col not in events.columns or event_time_col not in events.columns
events_columns_missing(h, events_ref, cols) ==
  cols.entity_col \notin DOMAIN h[events_ref] \/ cols.event_time_col \notin DOMAIN h[events_ref]

Init ==
  /\ spine \in SpineTables
  /\ tables \in [TableNames -> EventTables]
  /\ frames = CallerFrames(tables)
  /\ pc = "idle"
  /\ call = [op |-> "none"]
  /\ result = [status |-> "none"]
  /\ program = <<>>
  /\ blocks = <<>>

\* filter_events_point_in_time called with the column names cols: it raises
\* when a frame lacks a column it is told to use, and returns otherwise.
FilterWith(cols, lag, collect_audit) ==
  /\ call' = [op |-> "filter_events_point_in_time", allowed_lag |-> lag,
              collect_audit |-> collect_audit, cols |-> cols]
  /\ IF \/ spine_columns_missing(frames, "spine", cols)
        \/ events_columns_missing(frames, "events", cols)
     THEN /\ result' = [status |-> "raised"]
          /\ frames' = frames
          /\ pc' = "raised"
     ELSE /\ result' = filter_events_point_in_time(spine, tables["events"], lag, collect_audit)
          /\ frames' = CallerView(filter_frames(frames, "spine", "events"), tables)
          /\ pc' = "returned"

\* The call with the default column names.
FilterCall ==
  /\ pc = "idle"
  /\ \E lag \in Lags, collect_audit \in BOOLEAN :
       FilterWith(DefaultColumns, lag, collect_audit)
  /\ UNCHANGED <<spine, tables, program, blocks>>

CountCall ==
  /\ pc = "idle"
  /\ \E lag \in Lags, w \in Windows :
       /\ call' = [op |-> "count_events_in_window", allowed_lag |-> lag,
                   time_window |-> w]
       /\ result' = [out |-> count_events_in_window(spine, tables["events"], lag, w)]
  /\ frames' = CallerView(count_frames(frames, "spine", "events"), tables)
  /\ pc' = "returned"
  /\ UNCHANGED <<spine, tables, program, blocks>>

BuildCall ==
  /\ pc = "idle"
  /\ \E lag \in Lags, spec \in Specs, return_report \in BOOLEAN :
       /\ call' = [op |-> "build_features", allowed_lag |-> lag, spec |-> spec,
                   return_report |-> return_report]
       /\ \E st \in {build_state(frames, spine, tables, spec, lag, return_report)} :
            /\ result' = build_return(st, spine, return_report)
            /\ frames' = CallerView(st.heap, tables)
  /\ pc' = IF result'.status = "ok" THEN "returned" ELSE "raised"
  /\ UNCHANGED <<spine, tables, program, blocks>>

Next == FilterCall \/ CountCall \/ BuildCall

Spec == Init /\ [][Next]_vars

\* The behaviours in which the call made is a build_features call.
SpecBuild == Init /\ [][BuildCall]_vars

(***************************************************************************)
(* Assembling a specification: the constructors of spec.py, then the build *)
(***************************************************************************)
\* A constructor call of the caller: the class and its arguments.
NewWindowAgg(table, windows, metrics) ==
  [cls |-> "WindowAgg", table |-> table, windows |-> windows, metrics |-> metrics]

NewRecencyBlock(table, filter_col, filter_value) ==
  [cls |-> "RecencyBlock", table |-> table,
   filter_col |-> filter_col, filter_value |-> filter_value]

\* An object of the caller that is no block of the library.
NewDict == [cls |-> "dict"]

allowed_aggs == {"count", "sum", "mean", "nunique"}

\* Variant of WindowAgg.__post_init__: the wildcard may carry any aggregations.
WindowAgg_post_init_named(metrics) ==
  \A k \in 1 .. Len(metrics) :
    metrics[k].dim # "*" =>
      \A a \in 1 .. Len(metrics[k].aggs) : metrics[k].aggs[a] \in allowed_aggs

\* WindowAgg.__post_init__ returns (TRUE) or raises ValueError (FALSE).
WindowAgg_post_init(metrics) ==
  \A k \in 1 .. Len(metrics) :
    IF metrics[k].dim = "*"
    THEN metrics[k].aggs = <<"count">>
    ELSE \A a \in 1 .. Len(metrics[k].aggs) : metrics[k].aggs[a] \in allowed_aggs

\* RecencyBlock.__post_init__ returns (TRUE) or raises ValueError (FALSE).
RecencyBlock_post_init(filter_col, filter_value) ==
  IsNull(filter_col) = IsNull(filter_value)

\* The constructor call raw returns an object.
Constructs(raw) ==
  CASE raw.cls = "WindowAgg" -> WindowAgg_post_init(raw.metrics)
    [] raw.cls = "RecencyBlock" -> RecencyBlock_post_init(raw.filter_col, raw.filter_value)
    [] OTHER -> TRUE

\* The object it returns.
Constructed(raw) ==
  CASE raw.cls = "WindowAgg" -> WindowAgg(raw.table, raw.windows, raw.metrics)
    [] raw.cls = "RecencyBlock" -> RecencyBlock(raw.table, raw.filter_col, raw.filter_value)
    [] OTHER -> [kind |-> raw.cls]

CountOnly == <<Metric("*", <<"count">>)>>

\* The lists of constructor calls a caller makes before it builds: well-formed
\* ones, ones in which a constructor is given what it rejects, one with an
\* object that is no block, ones whose metrics name what the loop of
\* build_features has no branch or no column for, and one with the filter
\* values 1 and "1".
Programs ==
  {<<NewWindowAgg("events", <<"1D">>, CountOnly), NewRecencyBlock("logs", NULL, NULL)>>,
   <<NewWindowAgg("events", <<"12h", "1D">>, AllMetrics),
     NewWindowAgg("logs", <<"1D">>, CountOnly)>>,
   <<NewWindowAgg("events", <<>>, CountOnly), NewRecencyBlock("events", NULL, NULL)>>,
   <<NewWindowAgg("events", <<"12h">>, CountOnly),
     NewWindowAgg("events", <<"1D">>, CountOnly)>>,
   <<NewWindowAgg("events", <<"1D">>, <<Metric("*", <<"sum">>)>>)>>,
   <<NewWindowAgg("events", <<"1D">>, <<Metric("*", <<"count", "count">>)>>)>>,
   <<NewWindowAgg("events", <<"1D">>, <<Metric("v", <<"sum", "max">>)>>)>>,
   <<NewRecencyBlock("events", Some("v"), NULL)>>,
   <<NewRecencyBlock("events", NULL, Some(PyInt(1)))>>,
   <<NewRecencyBlock("events", NULL, NULL), NewDict>>,
   <<NewWindowAgg("events", <<"1D">>, <<Metric("v", <<"count", "sum">>)>>)>>,
   <<NewWindowAgg("events", <<"1D">>, <<Metric("nope", <<"sum">>)>>)>>,
   <<NewWindowAgg("events", <<>>, <<Metric("nope", <<"sum">>)>>)>>,
   <<NewRecencyBlock("events", Some("v"), Some(PyInt(1))),
     NewRecencyBlock("events", Some("v"), Some(PyStr("1")))>>}

InitBlocks ==
  /\ spine \in SmallSpineTables
  /\ tables \in [{"events", "logs"} -> SmallEventTables \cup LogTables]
  /\ tables["events"] \in SmallEventTables
  /\ tables["logs"] \in LogTables
  /\ frames = CallerFrames(tables)
  /\ pc = "idle"
  /\ call = [op |-> "none"]
  /\ result = [status |-> "none"]
  /\ program \in Programs
  /\ blocks = <<>>

\* The next constructor call of the program: the object joins the blocks, or
\* the constructor raises and the caller stops.
ConstructBlock ==
  /\ pc = "idle"
  /\ Len(blocks) < Len(program)
  /\ LET raw == program[Len(blocks) + 1]
     IN /\ call' = [op |-> raw.cls, args |-> raw]
        /\ IF Constructs(raw)
           THEN blocks' = Append(blocks, Constructed(raw)) /\ pc' = "idle"
           ELSE blocks' = blocks /\ pc' = "raised"
  /\ UNCHANGED <<spine, tables, frames, result, program>>

\* build_features on the blocks constructed.
BuildBlocks ==
  /\ pc = "idle"
  /\ Len(blocks) = Len(program)
  /\ \E lag \in Lags, return_report \in BOOLEAN, cols \in ColumnArgs :
       /\ cols.event_time_col = DefaultColumns.event_time_col
       /\ call' = [op |-> "build_features", allowed_lag |-> lag, spec |-> blocks,
                   return_report |-> return_report, cols |-> cols]
       /\ \E st \in {IF spine_columns_missing(frames, "spine", cols)
                      THEN [status |-> "raised", heap |-> frames]
                      ELSE build_state(frames, spine, tables, blocks, lag, return_report)} :
            /\ result' = build_return(st, spine, return_report)
            /\ frames' = CallerView(st.heap, tables)
  /\ pc' = IF result'.status = "ok" THEN "returned" ELSE "raised"
  /\ UNCHANGED <<spine, tables, program, blocks>>

\* The filter called with column names of the caller's choice.
FilterColumnsCall ==
  /\ pc = "idle"
  /\ \E lag \in Lags, collect_audit \in BOOLEAN, cols \in ColumnArgs :
       FilterWith(cols, lag, collect_audit)
  /\ UNCHANGED <<spine, tables, program, blocks>>

NextBlocks == ConstructBlock \/ BuildBlocks \/ FilterColumnsCall

\* The behaviours of a caller that assembles its specification and builds,
\* or calls the filter on its events table.
SpecBlocks == InitBlocks /\ [][NextBlocks]_vars

(***************************************************************************)
(* Properties                                                              *)
(***************************************************************************)
Ev == tables["events"]

Returned(op) == pc = "returned" /\ call.op = op

\* The join pair of spine row i and event row j.
PairAt(i, j) ==
  [entity_id |-> spine[i].entity_id, cutoff_time |-> spine[i].cutoff_time,
   event_time |-> Ev[j].event_time, v |-> Ev[j].v]

SameEntity(i, j) == spine[i].entity_id = Ev[j].entity_id

\* Event row j is no later than the cutoff of spine row i plus the lag.
Causal(i, j, lag) == Ev[j].event_time <= spine[i].cutoff_time + to_timedelta(lag)

\* Event row j is in the lookback window of length w of spine row i.
InWindow(i, j, w) ==
  /\ spine[i].cutoff_time - to_timedelta(w) < Ev[j].event_time
  /\ Ev[j].event_time <= spine[i].cutoff_time

Occurrences(df, p) == Cardinality({k \in 1 .. Len(df) : df[k] = p})

\* The index pairs of the inner join on the entity.
JoinIdx == {ij \in (1 .. Len(spine)) \X (1 .. Len(Ev)) : SameEntity(ij[1], ij[2])}

\* df holds exactly the pairs of the index pairs idx, each as often as idx
\* has index pairs that give it.
ExactlyThePairs(df, idx) ==
  /\ \A ij \in idx :
       Occurrences(df, PairAt(ij[1], ij[2]))
         = Cardinality({kl \in idx : PairAt(kl[1], kl[2]) = PairAt(ij[1], ij[2])})
  /\ \A k \in 1 .. Len(df) : \E ij \in idx : df[k] = PairAt(ij[1], ij[2])

\* C1. Causality: every pair filter_events_point_in_time returns, and every
\* pair that _events_in_window hands to an aggregation of the call made, has
\* event_time <= cutoff_time + allowed_lag.
C1_Causality ==
  /\ Returned("filter_events_point_in_time") =>
       \A k \in 1 .. Len(result.df) :
         result.df[k].event_time
           <= result.df[k].cutoff_time + to_timedelta(call.allowed_lag)
  /\ pc = "returned" /\ call.op \in {"count_events_in_window", "build_features"} =>
       \A w \in Windows :
         LET df == _events_in_window(spine, Ev, w, call.allowed_lag, FALSE).df
         IN \A k \in 1 .. Len(df) :
              df[k].event_time <= df[k].cutoff_time + to_timedelta(call.allowed_lag)

\* A filter call with a lag that kept a pair later than its cutoff and dropped
\* another.
C1_Witness ==
  /\ Returned("filter_events_point_in_time")
  /\ call.allowed_lag = "12h"
  /\ \E k \in 1 .. Len(result.df) : result.df[k].event_time > result.df[k].cutoff_time
  /\ \E i \in 1 .. Len(spine), j \in 1 .. Len(Ev) :
       SameEntity(i, j) /\ ~Causal(i, j, call.allowed_lag)

\* C2. filter_events_point_in_time returns exactly the pairs of the inner
\* join on the entity with event_time <= cutoff_time + allowed_lag: whether a
\* pair is kept depends on its own cutoff and event time alone.
C2_ExactFilter ==
  Returned("filter_events_point_in_time") =>
    ExactlyThePairs(result.df,
                    {ij \in JoinIdx : Causal(ij[1], ij[2], call.allowed_lag)})

\* Two cutoffs of one entity and an event kept for the later cutoff only,
\* with an event of another entity in the table.
C2_Witness ==
  /\ Returned("filter_events_point_in_time")
  /\ \E i1, i2 \in 1 .. Len(spine), j \in 1 .. Len(Ev) :
       /\ SameEntity(i1, j) /\ SameEntity(i2, j)
       /\ ~Causal(i1, j, call.allowed_lag) /\ Causal(i2, j, call.allowed_lag)
       /\ Occurrences(result.df, PairAt(i2, j)) = 1
       /\ Occurrences(result.df, PairAt(i1, j)) = 0
  /\ \E i \in 1 .. Len(spine), j \in 1 .. Len(Ev) : ~SameEntity(i, j)

\* Scenario B in the model's time units: cutoffs 0 and 2 of u1, one event of
\* u1 at time 0 (the first cutoff), no lag.
ScenarioB ==
  /\ Returned("filter_events_point_in_time")
  /\ call.allowed_lag = "0s"
  /\ spine = <<[entity_id |-> "u1", cutoff_time |-> 0],
               [entity_id |-> "u1", cutoff_time |-> 2]>>
  /\ Len(Ev) = 1 /\ Ev[1].entity_id = "u1" /\ Ev[1].event_time = 0

\* C3 as stated: in Scenario B exactly one pair is kept, the one of the later
\* cutoff.
C3_ScenarioB_Original ==
  ScenarioB => Len(result.df) = 1 /\ result.df[1].cutoff_time = 2

\* C3. In Scenario B both pairs are kept: the event at the first cutoff is
\* not later than that cutoff, so it is not future for it.
C3_ScenarioB ==
  ScenarioB =>
    /\ Len(result.df) = 2
    /\ result.df[1].cutoff_time = 0 /\ result.df[1].event_time = 0
    /\ result.df[2].cutoff_time = 2 /\ result.df[2].event_time = 0

C3_Witness == ScenarioB /\ Len(result.df) = 2

\* C4. Window boundary exactness: the pairs _events_in_window returns for a
\* window of length w are exactly the causally filtered pairs with
\* cutoff_time - w < event_time <= cutoff_time.
C4_WindowExact ==
  Returned("count_events_in_window") =>
    ExactlyThePairs(
      _events_in_window(spine, Ev, call.time_window, call.allowed_lag, FALSE).df,
      {ij \in JoinIdx : /\ Causal(ij[1], ij[2], call.allowed_lag)
                        /\ InWindow(ij[1], ij[2], call.time_window)})

\* A spine row with an event at its cutoff, which is counted, and an event
\* exactly one window length before it, which is not.
C4_Witness ==
  /\ Returned("count_events_in_window")
  /\ \E i \in 1 .. Len(spine), j1, j2 \in 1 .. Len(Ev) :
       /\ SameEntity(i, j1) /\ SameEntity(i, j2)
       /\ Ev[j1].event_time = spine[i].cutoff_time
       /\ Ev[j2].event_time = spine[i].cutoff_time - to_timedelta(call.time_window)
       /\ result.out[i].event_count = 1

Built == Returned("build_features")

WindowAggBlocks == {b \in 1 .. Len(call.spec) : call.spec[b].kind = "WindowAgg"}
RecencyBlocks == {b \in 1 .. Len(call.spec) : call.spec[b].kind = "RecencyBlock"}

\* The event rows of the entity of spine row i in its window of length w.
WindowEvents(i, w) == {j \in 1 .. Len(Ev) : SameEntity(i, j) /\ InWindow(i, j, w)}

\* Those with a value in column v.
ValuedEvents(i, w) == {j \in WindowEvents(i, w) : ~IsNull(Ev[j].v)}

\* The event rows that qualify for the recency of spine row i under block:
\* same entity, passing the block's filter, not later than cutoff plus lag.
RecencyEvents(i, block) ==
  {j \in 1 .. Len(Ev) :
     /\ SameEntity(i, j)
     /\ \/ IsNull(block.filter_col)
        \/ /\ block.filter_value[1].type = "int"
           /\ Ev[j].v = Some(block.filter_value[1].val)
     /\ Causal(i, j, call.allowed_lag)}

HasDim(block, dim, agg) ==
  \E k \in 1 .. Len(block.metrics) :
    block.metrics[k].dim = dim /\ Has(block.metrics[k].aggs, agg)

WindowsOf(block) == {block.windows[k] : k \in 1 .. Len(block.windows)}

\* C5 as stated: on every spine row, the n_events column of a wildcard-count
\* block and window, and the event_count column of count_events_in_window,
\* is the number of event rows of the row's entity inside the row's window.
C5_CountIsEventCount ==
  /\ Built =>
       \A b \in WindowAggBlocks :
         HasDim(call.spec[b], "*", "count") =>
           \A w \in WindowsOf(call.spec[b]), i \in 1 .. Len(spine) :
             result.cols[CountName(call.spec[b].table, w)][i]
               = Cardinality(WindowEvents(i, w))
  /\ Returned("count_events_in_window") =>
       \A i \in 1 .. Len(spine) :
         result.out[i].event_count = Cardinality(WindowEvents(i, call.time_window))

\* The first spine row with the (entity, cutoff) of row i.
FirstOfKey(i) == CHOOSE k \in 1 .. i : KeyOf(spine[k]) = KeyOf(spine[i]) /\
                                      \A l \in 1 .. k - 1 : KeyOf(spine[l]) # KeyOf(spine[i])

\* C6. Row-count preservation: the frame build_features returns has the
\* spine's rows in the spine's order, every feature column has one value per
\* spine row, and the value on a row is the one computed for that row's
\* (entity, cutoff): the one a build on the spine rows of that key gives.
C6_RowsPreserved ==
  Built =>
    /\ result.rows = spine
    /\ \A c \in DOMAIN result.cols : Len(result.cols[c]) = Len(spine)
    /\ \A i \in 1 .. Len(spine) :
         IF FirstOfKey(i) # i
         THEN \A c \in DOMAIN result.cols :
                result.cols[c][i] = result.cols[c][FirstOfKey(i)]
         ELSE LET own == build_features(
                           SelectSeq(spine, LAMBDA r : KeyOf(r) = KeyOf(spine[i])),
                           tables, call.spec, call.allowed_lag, FALSE)
              IN \A c \in DOMAIN result.cols : result.cols[c][i] = own.cols[c][1]

\* A build on a spine whose rows are not in cutoff order, one of them with
\* events in the window and the other without.
C6_Witness ==
  /\ Built
  /\ Len(spine) = 2
  /\ spine[1].cutoff_time > spine[2].cutoff_time
  /\ \E c \in DOMAIN result.cols : result.cols[c][1] # result.cols[c][2]
  /\ \E w \in Windows : WindowEvents(1, w) # {} /\ WindowEvents(2, w) = {}

\* C7. Audit additivity: kept_pairs + dropped_future_pairs equals
\* total_joined_pairs in the audit of filter_events_point_in_time and in
\* every TableAudit of the report of build_features.
C7_AuditAdditive ==
  /\ Returned("filter_events_point_in_time") /\ call.collect_audit =>
       LET a == result.audit[1]
       IN a.kept_pairs + a.dropped_future_pairs = a.total_joined_pairs
  /\ Built /\ call.return_report =>
       \A t \in DOMAIN result.report[1] :
         LET a == result.report[1][t]
         IN a.kept_pairs + a.dropped_future_pairs = a.total_joined_pairs

\* A report whose table has pairs kept, pairs dropped, and a pair exactly at
\* cutoff plus lag.
C7_Witness ==
  /\ Built /\ call.return_report
  /\ "events" \in DOMAIN result.report[1]
  /\ result.report[1]["events"].kept_pairs > 0
  /\ result.report[1]["events"].dropped_future_pairs > 0
  /\ \E ij \in JoinIdx :
       Ev[ij[2]].event_time = spine[ij[1]].cutoff_time + to_timedelta(call.allowed_lag)

\* The value fillna(0) leaves in a mean column.
ZeroMean == [num |-> 0, den |-> 1]

SinceLast(i, block) ==
  spine[i].cutoff_time - Max({Ev[j].event_time : j \in RecencyEvents(i, block)})

\* C9 as stated: the recency of a row with a qualifying event is the
\* whole-day part of cutoff minus latest event, fractions cut toward zero.
C9_RecencyTruncates ==
  Built =>
    \A b \in RecencyBlocks, i \in 1 .. Len(spine) :
      RecencyEvents(i, call.spec[b]) # {} =>
        LET d == SinceLast(i, call.spec[b])
        IN result.cols[RecencyName(call.spec[b])][i]
             = Some(IF d >= 0 THEN d \div DayUnits ELSE -((-d) \div DayUnits))

\* C9. The recency of a row with a qualifying event is the number of whole
\* days in cutoff minus latest event rounded down: the integer n with
\* n days <= difference < n + 1 days (the truncated value when the latest
\* event is not after the cutoff).
C9_RecencyFloors ==
  Built =>
    \A b \in RecencyBlocks, i \in 1 .. Len(spine) :
      RecencyEvents(i, call.spec[b]) # {} =>
        LET d == SinceLast(i, call.spec[b])
            r == result.cols[RecencyName(call.spec[b])][i]
        IN /\ ~IsNull(r)
           /\ r[1] * DayUnits <= d
           /\ d < (r[1] + 1) * DayUnits
           /\ d >= 0 => r[1] = d \div DayUnits

\* A row whose latest qualifying event is half a day after its cutoff, within
\* the lag: its recency is -1.
C9_Witness ==
  /\ Built
  /\ \E b \in RecencyBlocks, i \in 1 .. Len(spine) :
       /\ RecencyEvents(i, call.spec[b]) # {}
       /\ SinceLast(i, call.spec[b]) = -1
       /\ result.cols[RecencyName(call.spec[b])][i] = Some(-1)

\* C10 as stated: on every spine row, for the named dimension v and every
\* window, sum is the sum of v over the entity's events in the window, nunique
\* the number of distinct non-null values of v over them, and mean that sum
\* divided by the number of them with a non-null v.
C10_NamedAggregates ==
  Built =>
    \A b \in WindowAggBlocks, i \in 1 .. Len(spine) :
      LET blk == call.spec[b]
      IN \A w \in WindowsOf(blk) :
           LET S == ValuedEvents(i, w)
               total == SumSet([j \in 1 .. Len(Ev) |->
                                  IF IsNull(Ev[j].v) THEN 0 ELSE Ev[j].v[1]], S)
           IN /\ HasDim(blk, "v", "sum") =>
                   result.cols[AggName(blk.table, "v", "sum", w)][i] = total
              /\ HasDim(blk, "v", "nunique") =>
                   result.cols[AggName(blk.table, "v", "nunique", w)][i]
                     = Cardinality({Ev[j].v : j \in S})
              /\ HasDim(blk, "v", "mean") /\ S # {} =>
                   LET m == result.cols[AggName(blk.table, "v", "mean", w)][i]
                   IN m.num * Cardinality(S) = total * m.den

\* The tables read by a window-aggregation block of the specification built.
WindowAggTables == {call.spec[b].table : b \in WindowAggBlocks}

\* Those read by a window-aggregation block that declares a window.
WindowedTables ==
  {call.spec[b].table : b \in {c \in WindowAggBlocks : Len(call.spec[c].windows) > 0}}

\* C11 as stated: the report of a build with return_report has exactly the
\* tables read by a window-aggregation block of the specification.
C11_ReportTables_Original ==
  Built /\ call.return_report => DOMAIN result.report[1] = WindowAggTables

\* C11. The report of a build with return_report has one entry for each table
\* read by a window-aggregation block that declares at least one window, and
\* no other entry: none for a table that only recency blocks read, none for
\* a table whose window-aggregation blocks have an empty window list.
C11_ReportTables ==
  Built /\ call.return_report => DOMAIN result.report[1] = WindowedTables

\* A report with an entry for events and none for logs, which a recency block
\* of the specification reads.
C11_Witness ==
  /\ Built /\ call.return_report
  /\ DOMAIN result.report[1] = {"events"}
  /\ \E b \in RecencyBlocks : call.spec[b].table = "logs"

MalformedWindowAgg(raw) ==
  /\ raw.cls = "WindowAgg"
  /\ \E k \in 1 .. Len(raw.metrics) :
       LET dim == raw.metrics[k].dim
           aggs == raw.metrics[k].aggs
       IN \/ dim = "*" /\ aggs # <<"count">>
          \/ dim # "*" /\ \E a \in 1 .. Len(aggs) :
                             aggs[a] \notin {"count", "sum", "mean", "nunique"}

\* A RecencyBlock call given exactly one of filter_col and filter_value.
MalformedRecencyBlock(raw) ==
  /\ raw.cls = "RecencyBlock"
  /\ \/ IsNull(raw.filter_col) /\ ~IsNull(raw.filter_value)
     \/ ~IsNull(raw.filter_col) /\ IsNull(raw.filter_value)

\* C13. A malformed specification never yields features: a WindowAgg call
\* with a wildcard paired with anything but exactly [count], or with an
\* aggregation outside {count, sum, mean, nunique} on a named dimension, raises
\* and gives no block; a RecencyBlock call with exactly one of filter_col and
\* filter_value raises and gives no block; build_features raises when its
\* spec holds an object that is neither a WindowAgg nor a RecencyBlock; and
\* so no build returns features for a program that has any of these.
C13_MalformedSpecFails ==
  /\ call.op \in {"WindowAgg", "RecencyBlock"}
       /\ (MalformedWindowAgg(call.args) \/ MalformedRecencyBlock(call.args))
       => pc = "raised" /\ result.status = "none" /\ Len(blocks) < Len(program)
  /\ call.op = "build_features"
       /\ (\E b \in 1 .. Len(call.spec) :
             call.spec[b].kind \notin {"WindowAgg", "RecencyBlock"})
       => pc = "raised" /\ result.status = "raised"
  /\ Returned("build_features") =>
       \A k \in 1 .. Len(program) :
         /\ ~MalformedWindowAgg(program[k])
         /\ ~MalformedRecencyBlock(program[k])
         /\ program[k].cls \in {"WindowAgg", "RecencyBlock"}

\* A WindowAgg call with the wildcard paired with [count, count] has raised.
C13_Witness ==
  /\ pc = "raised" /\ call.op = "WindowAgg"
  /\ call.args.metrics[1] = Metric("*", <<"count", "count">>)

\* The column of a declared (dimension, aggregation, window) triple.
TripleName(table, dim, agg, w) ==
  IF dim = "*" THEN CountName(table, w) ELSE AggName(table, dim, agg, w)

\* C14. For every WindowAgg block accepted at construction, a build that
\* returns has added a feature column for each (dimension, aggregation,
\* window) triple the block declares: every aggregation listed for a
\* dimension has its column for every declared window.
C14_ColumnPerTriple ==
  Returned("build_features") =>
    \A b \in WindowAggBlocks :
      LET block == call.spec[b]
      IN \A k \in 1 .. Len(block.metrics), w \in WindowsOf(block) :
           \A a \in 1 .. Len(block.metrics[k].aggs) :
             TripleName(block.table, block.metrics[k].dim,
                        block.metrics[k].aggs[a], w) \in DOMAIN result.cols

\* C15. Missing columns always fail the call: build_features fails when the
\* spine lacks the entity or cutoff column it is told to use; the temporal
\* join filter fails when the events table lacks the entity or event-time
\* column; and build_features fails, returning no features, whenever a
\* window-aggregation block of its spec has a metrics dimension that is not a
\* column of the block's event table.
C15_MissingColumnsFail ==
  /\ call.op = "build_features"
       /\ (call.cols.entity_col \notin DOMAIN frames["spine"]
            \/ call.cols.cutoff_col \notin DOMAIN frames["spine"])
       => pc = "raised" /\ result.status = "raised"
  /\ call.op = "filter_events_point_in_time"
       /\ (call.cols.entity_col \notin DOMAIN frames["events"]
            \/ call.cols.event_time_col \notin DOMAIN frames["events"])
       => pc = "raised"
  /\ call.op = "build_features"
       /\ (\E b \in WindowAggBlocks :
             \E k \in 1 .. Len(call.spec[b].metrics) :
               /\ call.spec[b].metrics[k].dim # "*"
               /\ call.spec[b].metrics[k].dim \notin DOMAIN frames[call.spec[b].table])
       => pc = "raised" /\ result.status = "raised"

\* The inner-join pairs of the spine and the event rows ev, as index pairs,
\* and those of them whose event lies after the cutoff plus the lag.
JoinedPairs(ev) ==
  {p \in (1 .. Len(spine)) \X (1 .. Len(ev)) : spine[p[1]].entity_id = ev[p[2]].entity_id}

FuturePairs(ev, lag) ==
  {p \in JoinedPairs(ev) :
     ev[p[2]].event_time > spine[p[1]].cutoff_time + to_timedelta(lag)}

\* By how much the event of a pair exceeds the cutoff plus the lag.
Excess(ev, p, lag) ==
  ev[p[2]].event_time - (spine[p[1]].cutoff_time + to_timedelta(lag))

\* The audit record a is the one the claim describes for the event rows ev.
AuditAsClaimed(a, ev, lag) ==
  /\ a.total_joined_pairs = Cardinality(JoinedPairs(ev))
  /\ a.dropped_future_pairs = Cardinality(FuturePairs(ev, lag))
  /\ IsNull(a.max_future_delta) <=> a.dropped_future_pairs = 0
  /\ ~IsNull(a.max_future_delta) =>
       /\ a.max_future_delta[1] >= 0
       /\ \E p \in FuturePairs(ev, lag) : Excess(ev, p, lag) = a.max_future_delta[1]
       /\ \A p \in FuturePairs(ev, lag) : Excess(ev, p, lag) <= a.max_future_delta[1]

\* C16. In every audit record - the one the filter returns with
\* collect_audit and each entry of the report of a build - total_joined_pairs
\* is the number of inner-join pairs, dropped_future_pairs the number of
\* those with event_time > cutoff_time + allowed_lag, and max_future_delta is
\* null exactly when nothing was dropped and otherwise the largest
\* event_time - (cutoff_time + allowed_lag) over the dropped pairs, which is
\* not negative.
C16_AuditValues ==
  /\ Returned("filter_events_point_in_time") /\ call.collect_audit =>
       AuditAsClaimed(result.audit[1], Ev, call.allowed_lag)
  /\ Returned("build_features") /\ call.return_report =>
       \A t \in DOMAIN result.report[1] :
         AuditAsClaimed(result.report[1][t], tables[t], call.allowed_lag)

\* An audit with a lag of 12h in which pairs were dropped and others kept.
C16_Witness ==
  /\ Returned("filter_events_point_in_time") /\ call.collect_audit
  /\ call.allowed_lag = "12h"
  /\ result.audit[1].dropped_future_pairs > 0
  /\ result.audit[1].kept_pairs > 0
  /\ result.audit[1].max_future_delta[1] > 0

\* C17. The audit record stored for a table is window-invariant: after a
\* build with a report, every window of every window-aggregation block gives,
\* for the block's table, the very record the report holds for that table -
\* whichever window was the first and whichever block wrote the entry last.
C17_AuditWindowInvariant ==
  Returned("build_features") /\ call.return_report =>
    \A b \in WindowAggBlocks :
      LET block == call.spec[b]
      IN \A w \in WindowsOf(block) :
           /\ block.table \in DOMAIN result.report[1]
           /\ _events_in_window(spine, tables[block.table], w, call.allowed_lag,
                                TRUE).audit[1] = result.report[1][block.table]

\* A build with a report over two blocks on the same table with different
\* windows, whose count columns differ while the audit has joined pairs.
C17_Witness ==
  /\ Returned("build_features") /\ call.return_report
  /\ Len(call.spec) = 2
  /\ call.spec[1] = WindowAgg("events", <<"12h">>, CountOnly)
  /\ call.spec[2] = WindowAgg("events", <<"1D">>, CountOnly)
  /\ result.report[1]["events"].total_joined_pairs > 0
  /\ result.cols["events__n_events__12h"] # result.cols["events__n_events__1d"]

\* The columns the recency blocks of the spec assign.
RecencyColumns == {RecencyName(call.spec[b]) : b \in RecencyBlocks}

\* C19. Window-aggregation features do not depend on allowed_lag: the build
\* made and the build of the same spine, tables and spec with any other lag
\* have the same columns, and every column that is not a recency column - the
\* count, sum, mean and nunique columns - has the same values in both.
C19_WindowAggLagFree ==
  Returned("build_features") =>
    \A lag \in Lags \ {call.allowed_lag} :
      \A other \in {build_features(spine, tables, call.spec, lag, call.return_report)} :
        /\ other.status = "ok"
        /\ DOMAIN other.cols = DOMAIN result.cols
        /\ \A c \in DOMAIN result.cols \ RecencyColumns : other.cols[c] = result.cols[c]

\* A build with a lag of 12h of window aggregations and recency over an event
\* within 12h after the cutoff of a spine row of its entity: the recency
\* column is not the one of the build with no lag.
C19_Witness ==
  /\ Returned("build_features") /\ call.allowed_lag = "12h"
  /\ call.spec[1] = WindowAgg("events", <<"12h", "1D">>, AllMetrics)
  /\ \E i \in 1 .. Len(spine), j \in 1 .. Len(Ev) :
       /\ SameEntity(i, j)
       /\ spine[i].cutoff_time < Ev[j].event_time
       /\ Ev[j].event_time <= spine[i].cutoff_time + to_timedelta("12h")
  /\ result.cols["events__recency"] #
       build_features(spine, tables, call.spec, "0s", FALSE).cols["events__recency"]

\* The orders of the blocks of a spec.
Perms(n) == {p \in [1 .. n -> 1 .. n] : \A i, j \in 1 .. n : p[i] = p[j] => i = j}

Permuted(spec, p) == [k \in 1 .. Len(spec) |-> spec[p[k]]]

\* C18. Block order does not matter: a build of any permutation of the
\* blocks of the build made, on the same spine, tables and allowed_lag,
\* returns the same feature column names with the same value on every spine
\* row, and the same audit report.
C18_BlockOrderFree ==
  Returned("build_features") =>
    \A p \in Perms(Len(call.spec)) :
      \A other \in {build_features(spine, tables, Permuted(call.spec, p),
                                    call.allowed_lag, call.return_report)} :
        /\ other.status = "ok"
        /\ other.cols = result.cols
        /\ other.report = result.report

====
